---- MODULE Spec2Model ----
(***************************************************************************)
(* Model of the extraction run of src/src/extract.py (main and the         *)
(* from_words / insert_records routines it calls), and of the tabs of      *)
(* src/src/analysis.py that filter and tabulate the stored records.        *)
(*                                                                         *)
(* Python lists are modelled as TLA+ sequences, so the Python index n is   *)
(* the TLA+ index n + 1: record[3] is record[4], words[i+1] with Python i  *)
(* is words[i + 1] with the 1-based scan position i of the model.          *)
(* Coordinates (floats in the code) are integers; TMUA scores are held in  *)
(* tenths (1.0 is 10, 9.0 is 90).                                          *)
(***************************************************************************)
EXTENDS Integers, Sequences, FiniteSets, TLC

VARIABLES
    data_file,      \* which document DATA_FILE is (fixed for the run)
    page,           \* loop variable of `for page in range(FIRST_PAGE, LAST_PAGE + 1)`
    words,          \* get_words(DATA_FILE, page): the page's tokens
    i,              \* 1-based position of the token scan
    yes_x_range,    \* the three column signatures, None or <<min_x, max_x>>
    block_words,    \* defaultdict(list), as a sequence in insertion order
    k,              \* 1-based position in block_words.values()
    data,           \* the page's batch of records
    n,              \* 1-based position of insert_records' loop over data
    txn,            \* rows inserted by the open connection, not yet committed
    db,             \* committed rows of the three tables
    exc,            \* the exception that ended the run, or None
    pc,             \* position of main
    tab,            \* the analysis tab followed: its class of record
    self_data,      \* self.data of the tab: the rows get_data() returned
    year_setting,   \* YearSetting._year: a year, or -1 for all years
    outcome_setting,        \* OutcomeSetting._outcome
    filtered_records,       \* self.filtered_records
    summary_table_records,  \* self.summary_table_records (A-Level, GCSE)
    notebook,       \* the TMUA sub-notebook: its frames' tables, the one selected
    python313       \* the interpreter is 3.13 or later

\* the state of analysis.py, untouched by the extraction run
analysis == <<tab, self_data, year_setting, outcome_setting, filtered_records,
              summary_table_records, notebook, python313>>

\* the state of extract.py's main, untouched by the analysis
extraction == <<data_file, page, words, i, yes_x_range, block_words, k, data,
                n, txn>>

vars == <<data_file, page, words, i, yes_x_range, block_words, k, data, n,
          txn, db, exc, pc, tab, self_data, year_setting, outcome_setting,
          filtered_records, summary_table_records, notebook, python313>>

----------------------------------------------------------------------------
(* Bounds of the model.                                                    *)

\* number of pages of the range that are modelled
MaxPages == 2
\* number of blocks on a page
MaxBlocks == 2

----------------------------------------------------------------------------
(* Program constants.                                                      *)

\* value of YearSetting._year when "All" is selected
ALL_YEARS == -1

\* a notebook without frames
NoFrames == [frames |-> <<>>, select |-> 0]

FIRST_PAGE == 3
\* LAST_PAGE is 100 in the code; the model scans MaxPages pages.
LAST_PAGE == FIRST_PAGE + MaxPages - 1

ORIGINAL_COLLEGE == "Y0"
OTHER_COLLEGE == "Y1"
WINTER_POOL == "Y2"
GRADES == {"A*", "A", "B", "C", "D", "E"}

\* None in a slot of yes_x_range
None == <<>>

\* the (word1, word2) pairs of the header scan
HEADERS == << <<"Original", "College">>, <<"Other", "College">>, <<"in", "Winter">> >>

----------------------------------------------------------------------------
(* Conversions of token texts.  TLC strings are atomic, so a conversion is *)
(* the inverse of the formatting of the values that occur in the pages.    *)

\* the integers whose decimal strings occur as tokens
IntDomain == {7, 2023} \cup (101 .. (101 + MaxPages)) \cup (201 .. (201 + MaxPages))

\* int(w) succeeds
IsInt(w) == \E v \in IntDomain : ToString(v) = w

\* int(w)
IntOf(w) == CHOOSE v \in IntDomain : ToString(v) = w

\* the decimal literals that occur as tokens, with their value in tenths
FloatLits == { <<"0.0", 0>>, <<"0.9", 9>>, <<"1.0", 10>>, <<"5.5", 55>>,
               <<"9.0", 90>>, <<"9.1", 91>> }

\* float(w) succeeds
IsFloat(w) == IsInt(w) \/ \E p \in FloatLits : p[1] = w

\* float(w), in tenths
FloatOf(w) ==
    IF IsInt(w) THEN 10 * IntOf(w)
    ELSE (CHOOSE p \in FloatLits : p[1] = w)[2]

\* the tokens that end in ':'
ColonWords == {"Maths:", "Physics:", "Chemistry:"}

\* w.endswith(":")
EndsWithColon(w) == w \in ColonWords

\* w in record
In(w, record) == \E m \in 1 .. Len(record) : record[m] = w

----------------------------------------------------------------------------
(* Results of a routine that may raise.                                    *)

\* exc when nothing was raised
NoException == "None"

Raise(e) == [exc |-> e, recs |-> <<>>]
Return(r) == [exc |-> NoException, recs |-> <<r>>]
NoRecord == [exc |-> NoException, recs |-> <<>>]

----------------------------------------------------------------------------
(* ALevel.from_words                                                       *)

\* position of a grade in Python's string order ("A" < "A*" < "B" < ...)
GradeRank(g) ==
    CASE g = "A" -> 1 [] g = "A*" -> 2 [] g = "B" -> 3
      [] g = "C" -> 4 [] g = "D" -> 5 [] g = "E" -> 6

RECURSIVE InsertSorted(_, _)
InsertSorted(g, s) ==
    IF s = <<>> THEN <<g>>
    ELSE IF GradeRank(g) < GradeRank(Head(s)) THEN <<g>> \o s
    ELSE <<Head(s)>> \o InsertSorted(g, Tail(s))

\* grades.sort()
RECURSIVE SortGrades(_)
SortGrades(s) ==
    IF s = <<>> THEN <<>> ELSE InsertSorted(Head(s), SortGrades(Tail(s)))

\* the grades appended by the loop over enumerate(record), from position m on
RECURSIVE CollectGrades(_, _)
CollectGrades(record, m) ==
    IF m >= Len(record) THEN <<>>
    ELSE IF EndsWithColon(record[m]) /\ record[m + 1] \in GRADES
         THEN <<record[m + 1]>> \o CollectGrades(record, m + 1)
         ELSE CollectGrades(record, m + 1)

ALevelFromWords(record) ==
    IF Len(record) < 8 THEN Raise("IndexError")
    ELSE IF ~IsInt(record[8]) THEN Raise("ValueError")
    ELSE IF Len(record) < 9 THEN Raise("IndexError")
    ELSE IF ~IsInt(record[9]) THEN Raise("ValueError")
    ELSE IF EndsWithColon(record[Len(record)]) THEN Raise("IndexError")
    ELSE Return([kind |-> "ALevel",
                 id |-> IntOf(record[9]),
                 year |-> IntOf(record[8]),
                 original_college |-> In(ORIGINAL_COLLEGE, record),
                 other_college |-> In(OTHER_COLLEGE, record),
                 winter_pool |-> In(WINTER_POOL, record),
                 grades |-> SortGrades(CollectGrades(record, 1))])

----------------------------------------------------------------------------
(* GCSE.from_words                                                         *)

GCSEFromWords(record) ==
    IF Len(record) < 7 THEN Raise("IndexError")
    ELSE IF ~IsInt(record[7]) THEN Raise("ValueError")
    ELSE IF Len(record) < 8 THEN Raise("IndexError")
    ELSE IF ~IsInt(record[8]) THEN Raise("ValueError")
    ELSE IF ~IsInt(record[Len(record)]) THEN Raise("ValueError")
    ELSE Return([kind |-> "GCSE",
                 id |-> IntOf(record[8]),
                 year |-> IntOf(record[7]),
                 original_college |-> In(ORIGINAL_COLLEGE, record),
                 other_college |-> In(OTHER_COLLEGE, record),
                 winter_pool |-> In(WINTER_POOL, record),
                 nines |-> IntOf(record[Len(record)])])

----------------------------------------------------------------------------
(* TMUA.from_words (reached with at least 4 words: record[3] was read)     *)

TMUAFromWords(record) ==
    IF ~IsInt(record[4]) THEN Raise("ValueError")
    ELSE IF Len(record) < 5 THEN Raise("IndexError")
    ELSE IF ~IsInt(record[5]) THEN Raise("ValueError")
    ELSE IF \E m \in (Len(record) - 2) .. Len(record) : ~IsFloat(record[m])
         THEN Raise("ValueError")
    ELSE Return([kind |-> "TMUA",
                 id |-> IntOf(record[5]),
                 year |-> IntOf(record[4]),
                 original_college |-> In(ORIGINAL_COLLEGE, record),
                 other_college |-> In(OTHER_COLLEGE, record),
                 winter_pool |-> In(WINTER_POOL, record),
                 paper1 |-> FloatOf(record[Len(record) - 2]),
                 paper2 |-> FloatOf(record[Len(record) - 1]),
                 overall |-> FloatOf(record[Len(record)])])

\* TMUAInRange without the test of overall
TMUAInRangeNoOverall(tmua) ==
    /\ 10 <= tmua.paper1 /\ tmua.paper1 <= 90
    /\ 10 <= tmua.paper2 /\ tmua.paper2 <= 90

\* the test of lines 267-270, negated: the record is kept
TMUAInRange(tmua) ==
    /\ 10 <= tmua.paper1 /\ tmua.paper1 <= 90
    /\ 10 <= tmua.paper2 /\ tmua.paper2 <= 90
    /\ 10 <= tmua.overall /\ tmua.overall <= 90

----------------------------------------------------------------------------
(* The classification of one block (the body of the loop of line 260).     *)

ClassifyRecord(record) ==
    IF Len(record) < 4 THEN Raise("IndexError")
    ELSE IF record[4] = "A" THEN ALevelFromWords(record)
    ELSE IF record[4] = "GCSE" THEN GCSEFromWords(record)
    ELSE IF record[1] = "Computer"
         THEN LET t == TMUAFromWords(record)
              IN  IF t.exc # NoException THEN t
                  ELSE IF ~TMUAInRange(t.recs[1]) THEN NoRecord
                  ELSE t
    ELSE NoRecord

----------------------------------------------------------------------------
(* The token scan (lines 246-258).                                         *)

\* block_words[b].append(w), on the dict kept in insertion order
\* AppendWord when the word lists are kept in ascending block id order
AppendWordSorted(bw, b, w) ==
    IF \E m \in 1 .. Len(bw) : bw[m].block = b
    THEN [m \in 1 .. Len(bw) |->
             IF bw[m].block = b
             THEN [block |-> b, words |-> Append(bw[m].words, w)]
             ELSE bw[m]]
    ELSE SelectSeq(bw, LAMBDA e : e.block < b)
            \o <<[block |-> b, words |-> <<w>>]>>
            \o SelectSeq(bw, LAMBDA e : e.block > b)

\* block_words[word.block].append(w): a defaultdict keeps its keys in the
\* order of their first use
AppendWord(bw, b, w) ==
    IF \E m \in 1 .. Len(bw) : bw[m].block = b
    THEN [m \in 1 .. Len(bw) |->
             IF bw[m].block = b
             THEN [block |-> b, words |-> Append(bw[m].words, w)]
             ELSE bw[m]]
    ELSE Append(bw, [block |-> b, words |-> <<w>>])

RECURSIVE AppendWords(_, _, _)
AppendWords(bw, b, ws) ==
    IF ws = <<>> THEN bw
    ELSE AppendWords(AppendWord(bw, b, Head(ws)), b, Tail(ws))

\* words[i+1] of line 253 is read past the end of the page
HeaderScanRaises(ws, pos) ==
    \E j \in 1 .. 3 : ws[pos].word = HEADERS[j][1] /\ pos + 1 > Len(ws)

\* the test of line 253 for slot j
HeaderMatch(ws, pos, j) ==
    /\ ws[pos].word = HEADERS[j][1]
    /\ pos + 1 <= Len(ws)
    /\ ws[pos + 1].word = HEADERS[j][2]

\* Calibrate writing a slot only while it is None
CalibrateWriteOnce(r, ws, pos) ==
    [j \in 1 .. 3 |->
        IF r[j] = None /\ HeaderMatch(ws, pos, j)
        THEN <<ws[pos].min_x, ws[pos + 1].max_x>>
        ELSE r[j]]

\* yes_x_range after the loop of lines 248-254 for the token at pos
Calibrate(r, ws, pos) ==
    [j \in 1 .. 3 |->
        IF HeaderMatch(ws, pos, j)
        THEN <<ws[pos].min_x, ws[pos + 1].max_x>>
        ELSE r[j]]

\* all(yes_x_range): a tuple (min_x, max_x) is truthy, None is not
AllSet(r) == \A j \in 1 .. 3 : r[j] # None

\* f"Y{i}" for the Python index i = j - 1
Tag(j) == <<ORIGINAL_COLLEGE, OTHER_COLLEGE, WINTER_POOL>>[j]

\* InXRange with the upper bound excluded
InXRangeExclusive(slot, x) == slot[1] <= x /\ x < slot[2]

\* yes_x_range[i][0] <= word.min_x <= yes_x_range[i][1]
InXRange(slot, x) == slot[1] <= x /\ x <= slot[2]

\* the tags appended by lines 255-258 for a token of text w at min_x = x
RECURSIVE TagsFrom(_, _, _)
TagsFrom(r, x, j) ==
    IF j > 3 THEN <<>>
    ELSE IF InXRange(r[j], x) THEN <<Tag(j)>> \o TagsFrom(r, x, j + 1)
    ELSE TagsFrom(r, x, j + 1)

\* MarkerTags without the all(yes_x_range) gate: every slot that is set
\* is tried
MarkerTagsUngated(r, w, x) ==
    IF w = "Y"
    THEN LET hit == SelectSeq(<<1, 2, 3>>,
                        LAMBDA j : r[j] # None /\ r[j][1] <= x /\ x <= r[j][2])
         IN  [m \in 1 .. Len(hit) |-> Tag(hit[m])]
    ELSE <<>>

MarkerTags(r, w, x) ==
    IF w = "Y" /\ AllSet(r) THEN TagsFrom(r, x, 1) ELSE <<>>

\* ScanBlockWords as a second pass: the tokens up to pos regrouped with
\* the signatures as calibrated by the token at pos
RECURSIVE Regroup(_, _, _, _, _)
Regroup(bw, r, ws, m, pos) ==
    IF m > pos THEN bw
    ELSE Regroup(AppendWords(AppendWord(bw, ws[m].block, ws[m].word), ws[m].block,
                             MarkerTags(r, ws[m].word, ws[m].min_x)),
                 r, ws, m + 1, pos)

ScanBlockWordsTwoPass(bw, r, ws, pos) ==
    Regroup(<<>>, Calibrate(r, ws, pos), ws, 1, pos)

\* block_words after the iteration for the token at pos, which does not
\* raise: the token's text, then the tags of lines 255-258, resolved with
\* the signatures as calibrated up to and including this token
ScanBlockWords(bw, r, ws, pos) ==
    AppendWords(AppendWord(bw, ws[pos].block, ws[pos].word), ws[pos].block,
                MarkerTags(Calibrate(r, ws, pos), ws[pos].word, ws[pos].min_x))

\* PageStartRange when the list is created inside the loop over the pages
PageStartRangeReset(r) == <<None, None, None>>

\* yes_x_range at the start of a page: the list is created once, before
\* the loop over the pages (line 241)
PageStartRange(r) == r

----------------------------------------------------------------------------
(* The documents: what get_words can return.  A page is a sequence of at   *)
(* most MaxBlocks blocks, each drawn from the shapes of the document's     *)
(* layout; the block id of a block is its position on the page.            *)

Layouts == {"calibration", "partial", "overlap", "scores", "storage",
            "kinds", "short", "grades", "tagged", "edge", "interleaved"}

Plain(w) == [word |-> w, min_x |-> 0, max_x |-> 0]
At(w, lo, hi) == [word |-> w, min_x |-> lo, max_x |-> hi]
PlainWords(ws) == [m \in 1 .. Len(ws) |-> Plain(ws[m])]

Lead == PlainWords(<<"Outcome", "of", "each", "application">>)
ALevelHead(id) ==
    PlainWords(<<"Computer", "Science", "-", "A", "Level", "Predicted",
                 "Grades", "2023", ToString(id)>>)
GCSEHead(id) ==
    PlainWords(<<"Computer", "Science", "-", "GCSE", "Grade", "9s",
                 "2023", ToString(id)>>)
TMUAHead(id) == PlainWords(<<"Computer", "Science", "TMUA", "2023", ToString(id)>>)

\* the three header phrases where the layout prints them, and the first
\* one printed further right, across the second column
OriginalCollege == <<At("Original", 10, 14), At("College", 15, 20)>>
OtherCollege == <<At("Other", 30, 34), At("College", 35, 40)>>
InWinter == <<At("in", 50, 52), At("Winter", 53, 60)>>
OriginalCollegeShifted == <<At("Original", 25, 29), At("College", 30, 35)>>

\* the scores printed in TMUA blocks: in range with both ends, and one
\* score out of range in each position
ScoreRows == { <<"1.0", "9.0", "5.5">>, <<"0.9", "5.5", "5.5">>,
               <<"5.5", "9.1", "5.5">>, <<"5.5", "5.5", "0.9">>,
               <<"9.0", "1.0", "9.1">> }

Shape(s, x, sc, id) == [shape |-> s, x |-> x, scores |-> sc, fixed |-> id]

\* the kinds of block of a layout.  fixed is the applicant id printed in
\* the block, or 0 when the block prints the id of its page; x is min_x of
\* the block's 'Y' token
Shapes(layout) ==
    CASE layout = "calibration" ->
            {Shape("headers", 0, <<>>, 0)}
            \cup {Shape("gcse_marker", x, <<>>, 0) : x \in {5, 10, 60}}
      [] layout = "partial" ->
            {Shape(h, 0, <<>>, 0) : h \in {"original", "other_winter"}}
            \cup {Shape("gcse_marker", 20, <<>>, 0)}
      [] layout = "overlap" ->
            {Shape(h, 0, <<>>, 0) : h \in {"headers", "shifted"}}
            \cup {Shape("gcse_marker", x, <<>>, 0) : x \in {10, 32}}
      [] layout = "scores" ->
            {Shape("tmua", 0, sc, 0) : sc \in ScoreRows}
      [] layout = "storage" ->
            {Shape("alevel", 0, <<>>, 101), Shape("alevel", 0, <<>>, 102),
             Shape("gcse", 0, <<>>, 101),
             Shape("tmua", 0, <<"1.0", "9.0", "5.5">>, 101)}
      [] layout = "kinds" ->
            {Shape(h, 0, <<>>, 0) :
                h \in {"alevel", "gcse", "alevel_bare", "gcse_bare", "lead"}}
            \cup {Shape("tmua", 0, <<"1.0", "9.0", "5.5">>, 0)}
      [] layout = "short" ->
            {Shape(h, 0, <<>>, 0) :
                h \in {"gcse", "two_words", "computer_short", "alevel_cut",
                       "gcse_cut", "tmua_cut", "computer_title"}}
      [] layout = "grades" ->
            {Shape(h, 0, <<>>, 0) :
                h \in {"alevel", "alevel_title", "alevel_three",
                       "alevel_colon_last"}}
      [] layout = "tagged" ->
            {Shape("headers", 0, <<>>, 0)}
            \cup {Shape(h, 10, <<>>, 0) :
                    h \in {"alevel_marker", "gcse_marker_end"}}
            \cup {Shape("tmua_marker_end", 32, <<"1.0", "9.0", "5.5">>, 0)}
      [] layout = "edge" ->
            {Shape(h, 0, <<>>, 0) :
                h \in {"gcse", "ends_original", "ends_other", "ends_in"}}
      [] layout = "interleaved" ->
            {Shape("headers", 0, <<>>, 0), Shape("gcse", 0, <<>>, 0),
             Shape("weave", 10, <<>>, 0)}

\* the tokens (without block id) of a block of shape sh on a page whose
\* applicant id is own
ShapeTokens(sh, own) ==
    LET id == IF sh.fixed # 0 THEN sh.fixed ELSE own
        s == sh.shape
    IN  CASE s = "headers" ->
                Lead \o OriginalCollege \o OtherCollege \o InWinter
                     \o PlainWords(<<"Pool">>)
          [] s = "original" -> Lead \o OriginalCollege
          [] s = "other_winter" ->
                Lead \o OtherCollege \o InWinter \o PlainWords(<<"Pool">>)
          [] s = "shifted" -> Lead \o OriginalCollegeShifted
          [] s = "gcse_marker" ->
                GCSEHead(id) \o <<At("Y", sh.x, sh.x + 1)>> \o PlainWords(<<"7">>)
          [] s = "alevel" ->
                ALevelHead(id) \o PlainWords(<<"Maths:", "B", "Physics:", "A*">>)
          [] s = "gcse" -> GCSEHead(id) \o PlainWords(<<"7">>)
          [] s = "tmua" -> TMUAHead(id) \o PlainWords(sh.scores)
          [] s = "lead" -> Lead
          [] s = "alevel_bare" ->
                PlainWords(<<"Predicted", "grades", "at", "A", "Level", "for",
                             "entry", "2023", ToString(id), "Maths:", "A">>)
          [] s = "gcse_bare" ->
                PlainWords(<<"Number", "of", "9s", "GCSE", "for", "entry",
                             "2023", ToString(id), "7">>)
          [] s = "two_words" -> PlainWords(<<"Page", "3">>)
          [] s = "computer_short" -> PlainWords(<<"Computer", "Science">>)
          [] s = "alevel_cut" -> SubSeq(ALevelHead(id), 1, 5)
          [] s = "gcse_cut" -> SubSeq(GCSEHead(id), 1, 6)
          [] s = "tmua_cut" -> SubSeq(TMUAHead(id), 1, 4)
          [] s = "computer_title" ->
                PlainWords(<<"Computer", "Science", "Admissions", "Statistics",
                             "2023">>)
          [] s = "alevel_title" ->
                ALevelHead(id) \o PlainWords(<<"Physics", "B", "Maths:", "A">>)
          [] s = "alevel_three" ->
                ALevelHead(id)
                    \o PlainWords(<<"Maths:", "C", "Physics:", "A*",
                                    "Chemistry:", "A">>)
          [] s = "alevel_colon_last" ->
                ALevelHead(id) \o PlainWords(<<"Maths:", "A", "Physics:">>)
          [] s = "alevel_marker" ->
                ALevelHead(id) \o PlainWords(<<"Maths:">>)
                    \o <<At("Y", sh.x, sh.x + 1)>>
                    \o PlainWords(<<"B", "Physics:", "A*">>)
          [] s = "gcse_marker_end" ->
                GCSEHead(id) \o PlainWords(<<"7">>) \o <<At("Y", sh.x, sh.x + 1)>>
          [] s = "tmua_marker_end" ->
                TMUAHead(id) \o PlainWords(sh.scores)
                    \o <<At("Y", sh.x, sh.x + 1)>>
          [] s = "ends_original" -> Lead \o <<At("Original", 10, 14)>>
          [] s = "ends_other" -> Lead \o <<At("Other", 30, 34)>>
          [] s = "ends_in" -> Lead \o <<At("in", 50, 52)>>

\* the applicant id printed on page pg by the blocks that fix none
OwnId(pg) == 101 + (pg - FIRST_PAGE)

WithBlock(toks, b) ==
    [m \in 1 .. Len(toks) |->
        [word |-> toks[m].word, min_x |-> toks[m].min_x,
         max_x |-> toks[m].max_x, block |-> b]]

\* two GCSE blocks whose tokens the page prints interleaved: the first
\* lines of block 7, then block 4 whole, then the rest of block 7 with its
\* 'Y' token
Weave(sh, own) ==
    WithBlock(GCSEHead(own), 7)
        \o WithBlock(GCSEHead(own + 100) \o PlainWords(<<"7">>), 4)
        \o WithBlock(<<At("Y", sh.x, sh.x + 1)>> \o PlainWords(<<"7">>), 7)

\* the tokens of the block of shape sh at position pos of a page
BlockTokens(sh, own, pos) ==
    IF sh.shape = "weave" THEN Weave(sh, own)
    ELSE WithBlock(ShapeTokens(sh, own), pos)

\* the tokens of the page pg made of the blocks shs, from position pos on
RECURSIVE PageTokens(_, _, _)
PageTokens(shs, pg, pos) ==
    IF pos > Len(shs) THEN <<>>
    ELSE BlockTokens(shs[pos], OwnId(pg), pos) \o PageTokens(shs, pg, pos + 1)

\* the pages get_words may return for page pg of a document of the layout
PageSet(layout, pg) ==
    { PageTokens(shs, pg, 1) :
        shs \in UNION { [1 .. m -> Shapes(layout)] : m \in 1 .. MaxBlocks } }

----------------------------------------------------------------------------
(* The store: Database and the insert_records routines.                    *)

\* the table of the insert routine chosen by type(data[0])
TableOf(rec) ==
    CASE rec.kind = "ALevel" -> "alevel"
      [] rec.kind = "GCSE" -> "gcse"
      [] rec.kind = "TMUA" -> "tmua"

\* the attribute the routine of the table reads that only its own kind has
KindField(table) ==
    CASE table = "alevel" -> "grades"
      [] table = "gcse" -> "nines"
      [] table = "tmua" -> "paper1"

Ids(rows) == {row.id : row \in rows}
Range(s) == {s[m] : m \in 1 .. Len(s)}

\* InsertRaises when the routine reads only what every kind of record has
InsertRaisesAnyKind(table, rec, committed, pending) ==
    IF rec.id \in Ids(committed) \cup Ids(Range(pending)) THEN "IntegrityError"
    ELSE NoException

\* the exception of the body of the loop of insert_records for record rec,
\* with pending the rows the open connection has inserted so far
InsertRaises(table, rec, committed, pending) ==
    IF KindField(table) \notin DOMAIN rec THEN "AttributeError"
    ELSE IF rec.id \in Ids(committed) \cup Ids(Range(pending)) THEN "IntegrityError"
    ELSE NoException

\* InsertRoutine when an empty batch is handed to a routine that has
\* nothing to insert
InsertRoutineOfEmpty(batch) ==
    [exc |-> NoException,
     table |-> IF batch = <<>> THEN "alevel" ELSE TableOf(batch[1])]

\* type(data[0]).insert_records of line 275: the table of the routine the
\* first record of the batch selects, or the exception of data[0]
InsertRoutine(batch) ==
    IF batch = <<>> THEN [exc |-> "IndexError", table |-> "none"]
    ELSE [exc |-> NoException, table |-> TableOf(batch[1])]

\* ExitCommits when __exit__ commits whatever the exception
ExitCommitsAlways(exception) == TRUE

\* Database.__exit__ commits (line 37)
ExitCommits(exception) == exception = NoException

\* the committed rows of the table after Database.__exit__(exception)
AfterExit(committed, pending, exception) ==
    IF ExitCommits(exception) THEN committed \cup Range(pending) ELSE committed

----------------------------------------------------------------------------
(* The run.                                                                *)

Init ==
    /\ data_file \in Layouts
    /\ page = FIRST_PAGE
    /\ words = <<>>
    /\ i = 1
    /\ yes_x_range = <<None, None, None>>
    /\ block_words = <<>>
    /\ k = 1
    /\ data = <<>>
    /\ n = 1
    /\ txn = <<>>
    /\ db = [alevel |-> {}, gcse |-> {}, tmua |-> {}]
    /\ exc = NoException
    /\ pc = "get_words"
    /\ tab = "none"
    /\ self_data = <<>>
    /\ year_setting = ALL_YEARS
    /\ outcome_setting = "original_college_offer"
    /\ filtered_records = <<>>
    /\ summary_table_records = <<>>
    /\ notebook = NoFrames
    /\ python313 = FALSE

\* lines 243-245
GetWords ==
    /\ pc = "get_words"
    /\ \E ws \in PageSet(data_file, page) :
          /\ words' = ws
          /\ pc' = IF ws = <<>> THEN "dispatch" ELSE "scan"
    /\ block_words' = <<>>
    /\ i' = 1
    /\ data' = IF words' = <<>> THEN <<>> ELSE data
    /\ yes_x_range' = PageStartRange(yes_x_range)
    /\ UNCHANGED <<data_file, page, k, n, txn, db, exc>>
    /\ UNCHANGED analysis

\* one iteration of the loop of line 246
ScanToken ==
    /\ pc = "scan"
    /\ IF HeaderScanRaises(words, i)
       THEN /\ block_words' = AppendWord(block_words, words[i].block, words[i].word)
            /\ exc' = "IndexError"
            /\ pc' = "raised"
            /\ UNCHANGED <<yes_x_range, i, k, data>>
       ELSE /\ yes_x_range' = Calibrate(yes_x_range, words, i)
            /\ block_words' = ScanBlockWords(block_words, yes_x_range, words, i)
            /\ i' = i + 1
            /\ IF i = Len(words)
               THEN pc' = "classify" /\ k' = 1 /\ data' = <<>>
               ELSE UNCHANGED <<pc, k, data>>
            /\ exc' = exc
    /\ UNCHANGED <<data_file, page, words, n, txn, db>>
    /\ UNCHANGED analysis

\* one iteration of the loop of line 260
ClassifyBlock ==
    /\ pc = "classify"
    /\ LET res == ClassifyRecord(block_words[k].words)
       IN  IF res.exc # NoException
           THEN /\ exc' = res.exc
                /\ pc' = "raised"
                /\ UNCHANGED <<data, k>>
           ELSE /\ data' = data \o res.recs
                /\ k' = k + 1
                /\ pc' = IF k = Len(block_words) THEN "dispatch" ELSE "classify"
                /\ exc' = exc
    /\ UNCHANGED <<data_file, page, words, i, yes_x_range, block_words, n, txn, db>>
    /\ UNCHANGED analysis

\* type(data[0]) of line 275 and Database.__enter__
Dispatch ==
    /\ pc = "dispatch"
    /\ LET e == InsertRoutine(data).exc
       IN  IF e # NoException
           THEN exc' = e /\ pc' = "raised" /\ UNCHANGED <<n, txn>>
           ELSE exc' = exc /\ pc' = "insert" /\ n' = 1 /\ txn' = <<>>
    /\ UNCHANGED <<data_file, page, words, i, yes_x_range, block_words, k, data, db>>
    /\ UNCHANGED analysis

\* one iteration of the loop of insert_records; an exception leaves the
\* with block through Database.__exit__
InsertRow ==
    /\ pc = "insert"
    /\ n <= Len(data)
    /\ LET table == InsertRoutine(data).table
           e == InsertRaises(table, data[n], db[table], txn)
       IN  IF e # NoException
           THEN /\ db' = [db EXCEPT ![table] = AfterExit(db[table], txn, e)]
                /\ txn' = <<>>
                /\ exc' = e
                /\ pc' = "raised"
                /\ n' = n
           ELSE /\ txn' = Append(txn, data[n])
                /\ n' = n + 1
                /\ UNCHANGED <<db, exc, pc>>
    /\ UNCHANGED <<data_file, page, words, i, yes_x_range, block_words, k, data>>
    /\ UNCHANGED analysis

\* the end of the with block: Database.__exit__(None), then the next page
ExitDatabase ==
    /\ pc = "insert"
    /\ n > Len(data)
    /\ LET table == InsertRoutine(data).table
       IN  db' = [db EXCEPT ![table] = AfterExit(db[table], txn, NoException)]
    /\ txn' = <<>>
    /\ IF page = LAST_PAGE
       THEN pc' = "done" /\ page' = page
       ELSE pc' = "get_words" /\ page' = page + 1
    /\ UNCHANGED <<data_file, words, i, yes_x_range, block_words, k, data, n, exc>>
    /\ UNCHANGED analysis

Next ==
    \/ GetWords
    \/ ScanToken
    \/ ClassifyBlock
    \/ Dispatch
    \/ InsertRow
    \/ ExitDatabase

Spec == Init /\ [][Next]_vars

----------------------------------------------------------------------------
(* analysis.py: the years and outcomes that can be selected.               *)

\* number of rows of the table a tab loads
MaxRecords == 3

A_LEVEL_YEARS == <<2022, 2023, 2024>>
GCSE_YEARS == <<2022, 2023>>
TMUA_YEARS == <<2022, 2023, 2024>>

Tabs == {"ALevel", "GCSE", "TMUA"}

\* the years handed to the YearSetting of the tab
AllYears(t) ==
    CASE t = "ALevel" -> A_LEVEL_YEARS
      [] t = "GCSE" -> GCSE_YEARS
      [] t = "TMUA" -> TMUA_YEARS

\* YearSetting.years
Years(t, year) == IF year # ALL_YEARS THEN {year} ELSE Range(AllYears(t))

\* the members of Outcome
Outcomes ==
    {"original_college_offer", "other_college_offer", "winter_pool", "nothing",
     "any"}

\* matches_outcome when 'nothing' looks at the two offers only
matches_outcome_offers(record, outcome) ==
    CASE outcome = "original_college_offer" -> record.original_college
      [] outcome = "other_college_offer" -> record.other_college
      [] outcome = "winter_pool" -> record.winter_pool
      [] outcome = "nothing" ->
            ~record.original_college /\ ~record.other_college
      [] outcome = "any" -> TRUE

matches_outcome(record, outcome) ==
    CASE outcome = "original_college_offer" -> record.original_college
      [] outcome = "other_college_offer" -> record.other_college
      [] outcome = "winter_pool" -> record.winter_pool
      [] outcome = "nothing" ->
            /\ ~record.original_college
            /\ ~record.other_college
            /\ ~record.winter_pool
      [] outcome = "any" -> TRUE

\* the list comprehension of update_table and of update_output
Filtered(rows, years, outcome) ==
    SelectSeq(rows, LAMBDA record :
                       record.year \in years /\ matches_outcome(record, outcome))

----------------------------------------------------------------------------
(* The frequency table of a list of values.  A cell of the first column is *)
(* held as the text the Table shows; a percentage is held in tenths.       *)

\* " ".join(record.grades), for the grade lists of the stored records
JoinGrades(grades) ==
    CASE grades = <<"A", "A*", "A*">> -> "A A* A*"
      [] grades = <<"A*", "A*", "A*">> -> "A* A* A*"

\* the text of a score: the inverse of float()
ScoreText(v) == (CHOOSE p \in FloatLits : p[2] = v)[1]

\* the keys of Counter(values), in the order of their first occurrence
RECURSIVE CounterKeys(_)
CounterKeys(values) ==
    IF values = <<>> THEN <<>>
    ELSE LET front == CounterKeys(SubSeq(values, 1, Len(values) - 1))
             last == values[Len(values)]
         IN  IF In(last, front) THEN front ELSE Append(front, last)

CounterCount(values, key) == Len(SelectSeq(values, LAMBDA v : v = key))

\* item among the items s sorted by count, largest first, behind the items
\* of the same count (sorted() is stable)
RECURSIVE InsertByCount(_, _)
InsertByCount(item, s) ==
    IF s = <<>> THEN <<item>>
    ELSE IF Head(s)[2] >= item[2] THEN <<Head(s)>> \o InsertByCount(item, Tail(s))
    ELSE <<item>> \o s

RECURSIVE SortByCount(_)
SortByCount(items) ==
    IF items = <<>> THEN <<>>
    ELSE InsertByCount(items[Len(items)],
                       SortByCount(SubSeq(items, 1, Len(items) - 1)))

\* Counter(values).most_common()
MostCommon(values) ==
    LET keys == CounterKeys(values)
    IN  SortByCount([m \in 1 .. Len(keys) |->
                        <<keys[m], CounterCount(values, keys[m])>>])

\* float(f"{count / total * 100:.1f}") in tenths; no quotient of the model
\* lies halfway between two tenths
Percentage(count, total) == (2000 * count + total) \div (2 * total)

\* the rows of the frequency table of values, with the row "All"
TableRecords(values) ==
    LET common == MostCommon(values)
    IN  [m \in 1 .. Len(common) |->
            <<common[m][1], common[m][2],
              Percentage(common[m][2], Len(values))>>]
        \o << <<"All", Len(values), 1000>> >>

\* the exception of statistics.quantiles(points): fewer than two data
\* points, or from Python 3.13 on fewer than one
QuantilesRaises(points, py313) ==
    IF Len(points) < (IF py313 THEN 1 ELSE 2) THEN "StatisticsError"
    ELSE NoException

----------------------------------------------------------------------------
(* The stored rows a tab loads.  Every combination of the three outcomes   *)
(* occurs; an applicant has one of two years and one of two results.  The  *)
(* rows of a table are drawn in the order of this list, an applicant's     *)
(* attributes any number of times.                                         *)

Applicants ==
    << <<FALSE, FALSE, FALSE, 2022, 1>>, <<TRUE, FALSE, FALSE, 2022, 1>>,
       <<FALSE, TRUE, FALSE, 2023, 2>>, <<FALSE, FALSE, TRUE, 2023, 1>>,
       <<TRUE, TRUE, FALSE, 2022, 2>>, <<TRUE, FALSE, TRUE, 2023, 2>>,
       <<FALSE, TRUE, TRUE, 2022, 1>>, <<TRUE, TRUE, TRUE, 2023, 1>> >>

\* the row of table t of applicant a stored under id
StoredRecord(t, a, id) ==
    LET common == [id |-> id, year |-> a[4], original_college |-> a[1],
                   other_college |-> a[2], winter_pool |-> a[3]]
    IN  CASE t = "ALevel" ->
                common @@ [kind |-> "ALevel",
                           grades |-> IF a[5] = 1 THEN <<"A", "A*", "A*">>
                                      ELSE <<"A*", "A*", "A*">>]
          [] t = "GCSE" ->
                common @@ [kind |-> "GCSE", nines |-> IF a[5] = 1 THEN 7 ELSE 9]
          [] t = "TMUA" ->
                common @@ [kind |-> "TMUA", paper1 |-> 55,
                           paper2 |-> IF a[5] = 1 THEN 90 ELSE 10,
                           overall |-> IF a[5] = 1 THEN 55 ELSE 90]

\* get_data(): the rows of the table of t, at most MaxRecords of them
DataSet(t) ==
    { [m \in 1 .. Len(as) |-> StoredRecord(t, Applicants[as[m]], 100 + m)] :
        as \in { s \in UNION { [1 .. l -> DOMAIN Applicants] :
                                l \in 0 .. MaxRecords } :
                    \A m \in 1 .. (Len(s) - 1) : s[m] <= s[m + 1] } }

----------------------------------------------------------------------------
(* The three tabs' callbacks.  Each returns the attributes it leaves and   *)
(* the exception it raised.                                                *)

\* the field of every record of rows
Field(rows, field) == [m \in 1 .. Len(rows) |-> rows[m][field]]

\* the cells of the first column for the grade lists, the numbers of 9s
\* and the scores of a list
GradeKeys(values) == [m \in 1 .. Len(values) |-> JoinGrades(values[m])]
NineKeys(values) == [m \in 1 .. Len(values) |-> ToString(values[m])]
ScoreKeys(values) == [m \in 1 .. Len(values) |-> ScoreText(values[m])]

\* ALevelAnalysis.update_table
ALevelUpdateTable(rows, year, outcome) ==
    LET filtered == Filtered(rows, Years("ALevel", year), outcome)
    IN  [filtered_records |-> filtered,
         summary_table_records |->
            TableRecords(GradeKeys(Field(filtered, "grades"))),
         notebook |-> NoFrames,
         exc |-> NoException]

\* GCSEAnalysis.update_output: statistics.quantiles is called after
\* filtered_records is assigned and before the table is built
GCSEUpdateOutput(rows, year, outcome, table, py313) ==
    LET filtered == Filtered(rows, Years("GCSE", year), outcome)
        nines == Field(filtered, "nines")
        e == QuantilesRaises(nines, py313)
    IN  [filtered_records |-> filtered,
         summary_table_records |->
            IF e # NoException THEN table
            ELSE TableRecords(NineKeys(nines)),
         notebook |-> NoFrames,
         exc |-> e]

\* TMUADataFrame.__init__: the table_records of the frame
TMUADataFrame(results) == TableRecords(ScoreKeys(results))

\* TMUAAnalysis.update_output: the notebook is replaced by an empty one
\* and the frames are added one by one; the first TMUADataFrame that
\* raises leaves the notebook with the frames added so far
TMUAUpdateOutput(rows, year, outcome, table, py313) ==
    LET filtered == Filtered(rows, Years("TMUA", year), outcome)
        e == QuantilesRaises(Field(filtered, "paper1"), py313)
    IN  [filtered_records |-> filtered,
         summary_table_records |-> table,
         notebook |->
            IF e # NoException THEN NoFrames
            ELSE [frames |-> <<TMUADataFrame(Field(filtered, "paper1")),
                               TMUADataFrame(Field(filtered, "paper2")),
                               TMUADataFrame(Field(filtered, "overall"))>>,
                  select |-> 1],
         exc |-> e]

\* the callback of the tab t
Update(t, rows, year, outcome, table, py313) ==
    CASE t = "ALevel" -> ALevelUpdateTable(rows, year, outcome)
      [] t = "GCSE" -> GCSEUpdateOutput(rows, year, outcome, table, py313)
      [] t = "TMUA" -> TMUAUpdateOutput(rows, year, outcome, table, py313)

\* the property summary_table_records of the tab: the attribute, or for
\* TMUA the table of the selected frame (notebook.index raises without one)
SummaryTableRecords ==
    IF tab # "TMUA" THEN [exc |-> NoException, table |-> summary_table_records]
    ELSE IF notebook.select = 0 THEN [exc |-> "TclError", table |-> <<>>]
    ELSE [exc |-> NoException, table |-> notebook.frames[notebook.select]]

----------------------------------------------------------------------------
(* The run of analysis.py for one tab.                                     *)

\* most_recent_database() and the start of the tab's __init__: the table
\* of the tab holds the rows that get_data() returns
AnalysisInit ==
    /\ tab \in Tabs
    /\ self_data \in DataSet(tab)
    /\ python313 \in BOOLEAN
    /\ db = [t \in {"alevel", "gcse", "tmua"} |->
                IF self_data # <<>> /\ t = TableOf(self_data[1])
                THEN Range(self_data) ELSE {}]
    /\ year_setting = ALL_YEARS
    /\ outcome_setting = "original_college_offer"
    /\ filtered_records = <<>>
    /\ summary_table_records = <<>>
    /\ notebook = NoFrames
    /\ exc = NoException
    /\ pc = "construct"
    /\ data_file = "none"
    /\ page = FIRST_PAGE
    /\ words = <<>>
    /\ i = 1
    /\ yes_x_range = <<None, None, None>>
    /\ block_words = <<>>
    /\ k = 1
    /\ data = <<>>
    /\ n = 1
    /\ txn = <<>>

\* the attributes after the callback with the settings year and outcome
Updated(year, outcome) ==
    LET u == Update(tab, self_data, year, outcome, summary_table_records,
                    python313)
    IN  /\ filtered_records' = u.filtered_records
        /\ summary_table_records' = u.summary_table_records
        /\ notebook' = u.notebook
        /\ exc' = u.exc

\* the call of the callback that ends __init__: an exception leaves the
\* constructor and the program
Construct ==
    /\ pc = "construct"
    /\ Updated(year_setting, outcome_setting)
    /\ pc' = IF exc' # NoException THEN "raised" ELSE "mainloop"
    /\ UNCHANGED <<tab, self_data, year_setting, outcome_setting, python313, db>>
    /\ UNCHANGED extraction

\* a click on a radio button of the YearSetting; Tk reports an exception
\* of the callback and the main loop goes on
SelectYear ==
    /\ pc = "mainloop"
    /\ \E year \in Range(AllYears(tab)) \cup {ALL_YEARS} :
          /\ year_setting' = year
          /\ Updated(year, outcome_setting)
    /\ UNCHANGED <<tab, self_data, outcome_setting, python313, db, pc>>
    /\ UNCHANGED extraction

\* a click on a radio button of the OutcomeSetting
SelectOutcome ==
    /\ pc = "mainloop"
    /\ \E outcome \in Outcomes :
          /\ outcome_setting' = outcome
          /\ Updated(year_setting, outcome)
    /\ UNCHANGED <<tab, self_data, year_setting, python313, db, pc>>
    /\ UNCHANGED extraction

\* a click on a tab of the TMUA sub-notebook
SelectFrame ==
    /\ pc = "mainloop"
    /\ notebook.frames # <<>>
    /\ \E f \in 1 .. Len(notebook.frames) :
          notebook' = [notebook EXCEPT !.select = f]
    /\ UNCHANGED <<tab, self_data, year_setting, outcome_setting,
                   filtered_records, summary_table_records, python313, db,
                   exc, pc>>
    /\ UNCHANGED extraction

AnalysisNext ==
    \/ Construct
    \/ SelectYear
    \/ SelectOutcome
    \/ SelectFrame

AnalysisSpec == AnalysisInit /\ [][AnalysisNext]_vars


----------------------------------------------------------------------------
(* Vocabulary of the properties.                                           *)

Tags == {ORIGINAL_COLLEGE, OTHER_COLLEGE, WINTER_POOL}

\* the word list of block b, empty when the block has not been seen
WordsOf(bw, b) ==
    IF \E m \in 1 .. Len(bw) : bw[m].block = b
    THEN (CHOOSE e \in Range(bw) : e.block = b).words
    ELSE <<>>

\* the words the step adds at the end of block b's list
Added(b) ==
    SubSeq(WordsOf(block_words', b), Len(WordsOf(block_words, b)) + 1,
           Len(WordsOf(block_words', b)))

IsPrefix(s, t) == Len(s) <= Len(t) /\ SubSeq(t, 1, Len(s)) = s

\* the step scans the token at position i without raising
ScansToken == pc = "scan" /\ pc' # "raised"

\* the slots of r whose interval contains x, bounds included
SlotsAt(r, x) == {j \in 1 .. 3 : r[j] # None /\ r[j][1] <= x /\ x <= r[j][2]}

Calibrated(r) == \A j \in 1 .. 3 : r[j] # None

\* the tag of slot j: Y0 for original_college, Y1 for other_college, Y2
\* for winter_pool
SlotTag(j) == CASE j = 1 -> "Y0" [] j = 2 -> "Y1" [] j = 3 -> "Y2"

\* the tags of the slots of S, in slot order
SlotTags(S) ==
    LET js == SelectSeq(<<1, 2, 3>>, LAMBDA j : j \in S)
    IN  [m \in 1 .. Len(js) |-> SlotTag(js[m])]

\* the header phrase of slot j starts at position q of the page ws
PhraseAt(ws, q, j) ==
    /\ q < Len(ws)
    /\ <<ws[q].word, ws[q + 1].word>> =
          (CASE j = 1 -> <<"Original", "College">>
             [] j = 2 -> <<"Other", "College">>
             [] j = 3 -> <<"in", "Winter">>)

NoPhraseOn(ws) == \A q \in 1 .. Len(ws) : \A j \in 1 .. 3 : ~PhraseAt(ws, q, j)

----------------------------------------------------------------------------
(* C1: a tag is in a block's word list only if all three signature slots   *)
(* are set: while fewer than three header phrases have been matched in the *)
(* run (on this page so far or on an earlier page), no block holds a tag.  *)

C1_TagOnlyWhenCalibrated ==
    (\E j \in 1 .. 3 : yes_x_range[j] = None)
        => \A m \in 1 .. Len(block_words) :
              \A t \in Tags : ~In(t, block_words[m].words)

\* a 'Y' token lying in the interval of the only slot that is set has just
\* been scanned
C1_Witness ==
    /\ pc = "scan"
    /\ i > 1
    /\ words[i - 1].word = "Y"
    /\ yes_x_range[1] # None
    /\ yes_x_range[2] = None
    /\ 1 \in SlotsAt(yes_x_range, words[i - 1].min_x)

----------------------------------------------------------------------------
(* C2: the store holds no TMUA row with paper1, paper2 or overall outside  *)
(* [1.0, 9.0]; and when the blocks of a page have been classified, every   *)
(* TMUA block whose three scores lie in [1.0, 9.0], the ends included, has *)
(* its record in the page's batch.                                         *)

\* the printed scores that lie in [1.0, 9.0]
ScoresWithin == {"1.0", "5.5", "9.0"}

IsTMUABlock(ws) ==
    /\ Len(ws) >= 8
    /\ ws[1] = "Computer"
    /\ ws[4] \notin {"A", "GCSE"}

C2_TMUARange ==
    /\ \A row \in db.tmua :
          \A v \in {row.paper1, row.paper2, row.overall} : 10 <= v /\ v <= 90
    /\ pc \in {"dispatch", "insert"} =>
          \A m \in 1 .. Len(block_words) :
             LET ws == block_words[m].words
             IN  (/\ IsTMUABlock(ws)
                  /\ \A q \in (Len(ws) - 2) .. Len(ws) : ws[q] \in ScoresWithin)
                    => \E d \in 1 .. Len(data) :
                          /\ data[d].kind = "TMUA"
                          /\ ToString(data[d].id) = ws[5]
                          /\ data[d].paper1 = FloatOf(ws[Len(ws) - 2])
                          /\ data[d].paper2 = FloatOf(ws[Len(ws) - 1])
                          /\ data[d].overall = FloatOf(ws[Len(ws)])

\* a row with scores at both ends of the range is stored from a page that
\* also held a block with a score out of range
C2_Witness ==
    /\ \E row \in db.tmua : row.paper1 = 10 /\ row.paper2 = 90
    /\ Len(data) = 1
    /\ \E m \in 1 .. Len(block_words) :
          block_words[m].words[Len(block_words[m].words)] \in {"0.9", "9.1"}

----------------------------------------------------------------------------
(* C3: a page's batch is committed whole or not at all.  A step of the     *)
(* insert loop that raises leaves every table as it was and ends the run   *)
(* (no step follows, so no later page is read); the store changes only by  *)
(* the commit of a whole batch, which adds every record of the page to the *)
(* table and removes no row.                                               *)

C3_BatchAllOrNothing ==
    [][ /\ pc # "raised"
        /\ (pc = "insert" /\ exc' # NoException) => (db' = db /\ pc' = "raised")
        /\ db' # db =>
              /\ pc = "insert"
              /\ exc' = NoException
              /\ \A t \in DOMAIN db : db[t] \subseteq db'[t]
              /\ \E t \in DOMAIN db :
                    /\ db'[t] = db[t] \cup Range(data)
                    /\ \A u \in DOMAIN db \ {t} : db'[u] = db[u]
      ]_vars

\* the second record of a later page's batch repeats an id committed by an
\* earlier page, after the first record was inserted
C3_Witness ==
    /\ pc = "raised"
    /\ exc = "IntegrityError"
    /\ page > FIRST_PAGE
    /\ n = 2
    /\ data[1].id \notin Ids(db[TableOf(data[1])])
    /\ data[2].id \in Ids(db[TableOf(data[1])])

----------------------------------------------------------------------------
(* C4: the classification of a block follows the order: word at index 3    *)
(* "A" gives an A-Level record, else word at index 3 "GCSE" gives a GCSE   *)
(* record, else word at index 0 "Computer" gives a TMUA record, and any    *)
(* other block adds no record and raises no error.                         *)

\* the kind of the claim's lookup; a list without index 3 has no word there
KindByLookup(ws) ==
    IF Len(ws) >= 4 /\ ws[4] = "A" THEN "ALevel"
    ELSE IF Len(ws) >= 4 /\ ws[4] = "GCSE" THEN "GCSE"
    ELSE IF ws[1] = "Computer" THEN "TMUA"
    ELSE "none"

C4_ClassificationOrder ==
    [][ pc = "classify" =>
          LET kind == KindByLookup(block_words[k].words)
          IN  /\ kind = "none" => (data' = data /\ exc' = NoException)
              /\ \A d \in (Len(data) + 1) .. Len(data') : data'[d].kind = kind
      ]_vars

----------------------------------------------------------------------------
(* C5: a block too short for the offsets used (fewer than 4 words, or      *)
(* fewer words than the year and id offsets of its kind) is skipped: it    *)
(* adds no record, raises no error, and the classification goes on with    *)
(* the next block.                                                         *)

TooShort(ws) ==
    \/ Len(ws) < 4
    \/ KindByLookup(ws) = "ALevel" /\ Len(ws) < 9
    \/ KindByLookup(ws) = "GCSE" /\ Len(ws) < 8
    \/ KindByLookup(ws) = "TMUA" /\ Len(ws) < 5

C5_ShortBlockSkipped ==
    [][ (pc = "classify" /\ TooShort(block_words[k].words)) =>
          /\ data' = data
          /\ exc' = NoException
          /\ k' = k + 1
          /\ pc' \in {"classify", "dispatch"}
      ]_vars

----------------------------------------------------------------------------
(* C6: when the three slots are set at the scan of a 'Y' token and its     *)
(* min_x lies in exactly one slot's interval, the ends included, the       *)
(* token's block gains "Y" and then exactly the tag of that slot; when     *)
(* min_x lies in no interval the block gains "Y" alone.                    *)

C6_SingleSlotTag ==
    [][ (ScansToken /\ words[i].word = "Y" /\ Calibrated(yes_x_range')) =>
          LET hit == SlotsAt(yes_x_range', words[i].min_x)
          IN  /\ hit = {} => Added(words[i].block) = <<"Y">>
              /\ \A j \in 1 .. 3 :
                    hit = {j} => Added(words[i].block) = <<"Y", SlotTag(j)>>
      ]_vars

\* a 'Y' token at the upper end of the third slot's interval has been
\* scanned and its block ends in "Y", "Y2"
C6_Witness ==
    /\ pc = "scan"
    /\ i > 1
    /\ words[i - 1].word = "Y"
    /\ Calibrated(yes_x_range)
    /\ words[i - 1].min_x = yes_x_range[3][2]
    /\ LET ws == WordsOf(block_words, words[i - 1].block)
       IN  SubSeq(ws, Len(ws) - 1, Len(ws)) = <<"Y", "Y2">>

----------------------------------------------------------------------------
(* C7: each 'Y' token adds at most one tag to its block: no tag in a word  *)
(* list directly follows another tag.                                      *)

C7_AtMostOneTag ==
    \A m \in 1 .. Len(block_words) :
       LET ws == block_words[m].words
       IN  \A q \in 2 .. Len(ws) : ws[q] \in Tags => ws[q - 1] \notin Tags

----------------------------------------------------------------------------
(* C8: a slot that is set is never unset, by any step of the run, page     *)
(* boundaries included; and a 'Y' token on a page without header phrase is *)
(* resolved against the signatures as they were before the step, which are *)
(* those of the earlier pages.                                             *)

C8_SignaturesPersist ==
    [][ /\ \A j \in 1 .. 3 : yes_x_range[j] # None => yes_x_range'[j] # None
        /\ pc = "get_words" => yes_x_range' = yes_x_range
        /\ (ScansToken /\ words[i].word = "Y" /\ NoPhraseOn(words)
                /\ Calibrated(yes_x_range)) =>
              Added(words[i].block) =
                 <<"Y">> \o SlotTags(SlotsAt(yes_x_range, words[i].min_x))
      ]_vars

\* on a later page without header phrase, a 'Y' token has just been given
\* a tag
C8_Witness ==
    /\ page > FIRST_PAGE
    /\ pc = "scan"
    /\ NoPhraseOn(words)
    /\ i > 1
    /\ words[i - 1].word = "Y"
    /\ LET ws == WordsOf(block_words, words[i - 1].block)
       IN  ws[Len(ws)] \in Tags

----------------------------------------------------------------------------
(* C9, as claimed: a slot that is set keeps its interval for the rest of   *)
(* the run.                                                                *)

C9_WriteOnce ==
    [][ \A j \in 1 .. 3 :
           yes_x_range[j] # None => yes_x_range'[j] = yes_x_range[j] ]_vars

(* C9, amended: a slot changes only at a match of its own header phrase,   *)
(* and every match, the first or a later one, stores the interval          *)
(* [first.min_x, second.max_x] of that match: a later match at another     *)
(* x-interval replaces the stored interval.                                *)

C9_SlotHoldsLatestMatch ==
    [][ \A j \in 1 .. 3 :
           IF pc = "scan" /\ PhraseAt(words, i, j)
           THEN yes_x_range'[j] = <<words[i].min_x, words[i + 1].max_x>>
           ELSE yes_x_range'[j] = yes_x_range[j] ]_vars

\* the first slot holds the interval of a second match of its phrase, the
\* other two those of the page that set all three
C9_Witness ==
    yes_x_range = << <<25, 35>>, <<30, 40>>, <<50, 60>> >>

----------------------------------------------------------------------------
(* C10: calibration is not retroactive.  A scan step changes the word list *)
(* of the scanned token's block only, and only by adding at its end the    *)
(* token's text and then, for a 'Y' token scanned with the three slots     *)
(* set at that point, the tags of the slots containing its min_x; a header *)
(* match adds no tag; and between the scan and the next page no step       *)
(* changes a word list.  So a 'Y' scanned before the third header stays    *)
(* untagged and tags once added stay as they are.                          *)

C10_NotRetroactive ==
    [][ /\ pc \notin {"scan", "get_words"} => block_words' = block_words
        /\ pc = "scan" =>
              LET b == words[i].block
                  added == Added(b)
              IN  /\ \A m \in 1 .. Len(block_words) :
                        block_words[m].block # b => block_words'[m] = block_words[m]
                  /\ IsPrefix(WordsOf(block_words, b), WordsOf(block_words', b))
                  /\ Len(added) >= 1
                  /\ added[1] = words[i].word
                  /\ Tail(added) =
                        IF pc' # "raised" /\ words[i].word = "Y"
                              /\ Calibrated(yes_x_range')
                        THEN SlotTags(SlotsAt(yes_x_range', words[i].min_x))
                        ELSE <<>>
      ]_vars

\* the page has been scanned, the three slots are set, and a 'Y' token of
\* the page that lies in a slot's interval has no tag in its block: it was
\* scanned before the last header
C10_Witness ==
    /\ pc = "classify"
    /\ Calibrated(yes_x_range)
    /\ \E q \in 1 .. Len(words) :
          /\ words[q].word = "Y"
          /\ SlotsAt(yes_x_range, words[q].min_x) # {}
          /\ \A t \in Tags : ~In(t, WordsOf(block_words, words[q].block))

----------------------------------------------------------------------------
(* Vocabulary of the properties of from_words.                             *)

\* the block the step classifies
Classified == block_words[k].words

\* the record the step has appended to data
Produced == data'[Len(data')]

\* the step classifies a block and produces one record from it
ProducesRecord ==
    /\ pc' # "raised"
    /\ exc' = NoException
    /\ Len(data') = Len(data) + 1

\* the grades in ascending lexicographic order: "A" is a prefix of "A*"
LexOrder == <<"A", "A*", "B", "C", "D", "E">>
LexPos(g) == CHOOSE q \in 1 .. Len(LexOrder) : LexOrder[q] = g

\* the positions of ws that hold a colon-terminated word followed by grade g
AfterColon(ws, g) ==
    {m \in 1 .. (Len(ws) - 1) : EndsWithColon(ws[m]) /\ ws[m + 1] = g}

\* gs holds exactly the grades of ws that follow a colon-terminated word,
\* each as often as it occurs there, in ascending order
GradesOf(ws, gs) ==
    /\ \A m \in 1 .. Len(gs) : gs[m] \in GRADES
    /\ \A g \in GRADES :
          Cardinality({m \in 1 .. Len(gs) : gs[m] = g})
              = Cardinality(AfterColon(ws, g))
    /\ \A m \in 1 .. (Len(gs) - 1) : LexPos(gs[m]) <= LexPos(gs[m + 1])

\* a word list ALevel.from_words is given by main and can read the year
\* and the id from
ALevelList(ws) ==
    /\ Len(ws) >= 9
    /\ ws[4] = "A"
    /\ IsInt(ws[8])
    /\ IsInt(ws[9])

----------------------------------------------------------------------------
(* C11: for every word list of at least 9 words with integers at offsets   *)
(* 7 and 8, the last word ending in ':' included, ALevel.from_words        *)
(* returns a record whose grades are exactly the words that follow a       *)
(* colon-terminated word and are grades, in ascending lexicographic order. *)

C11_GradesFollowColon ==
    [][ (pc = "classify" /\ ALevelList(Classified)) =>
          /\ ProducesRecord
          /\ GradesOf(Classified, Produced.grades)
      ]_vars

----------------------------------------------------------------------------
(* C12: every block of kind A-Level, GCSE or TMUA that carries an injected *)
(* tag produces a record with the tag's outcome true and with the nines    *)
(* or the three scores read from the original tokens, wherever the marker  *)
(* stands in the block, its last token included.                           *)

\* ws without the tags
Untagged(ws) == SelectSeq(ws, LAMBDA w : w \notin Tags)

\* ws without the tags and the markers
Original(ws) == SelectSeq(ws, LAMBDA w : w \notin Tags \cup {"Y"})

\* a tagged block of one of the three kinds, with its fixed fields in place
TaggedBlock(ws) ==
    /\ \E t \in Tags : In(t, ws)
    /\ Len(ws) >= 4
    /\ \/ ALevelList(ws)
       \/ ws[4] = "GCSE" /\ Len(ws) >= 9 /\ IsInt(ws[7]) /\ IsInt(ws[8])
       \/ ws[3] = "TMUA" /\ Len(ws) >= 8 /\ IsInt(ws[4]) /\ IsInt(ws[5])

\* the nines of a GCSE record and the scores of a TMUA record are those of
\* the original tokens ws
FieldsOf(ws, rec) ==
    LET l == Len(ws)
    IN  CASE rec.kind = "ALevel" -> TRUE
          [] rec.kind = "GCSE" -> IsInt(ws[l]) /\ rec.nines = IntOf(ws[l])
          [] rec.kind = "TMUA" ->
                /\ \A m \in (l - 2) .. l : IsFloat(ws[m])
                /\ rec.paper1 = FloatOf(ws[l - 2])
                /\ rec.paper2 = FloatOf(ws[l - 1])
                /\ rec.overall = FloatOf(ws[l])

C12_TaggedBlockParsed ==
    [][ (pc = "classify" /\ TaggedBlock(Classified)) =>
          /\ ProducesRecord
          /\ Produced.original_college = In(ORIGINAL_COLLEGE, Classified)
          /\ Produced.other_college = In(OTHER_COLLEGE, Classified)
          /\ Produced.winter_pool = In(WINTER_POOL, Classified)
          /\ FieldsOf(Original(Classified), Produced)
      ]_vars

----------------------------------------------------------------------------
(* C13: the discard of a TMUA record with a score out of range is silent:  *)
(* the step raises nothing, adds no record and leaves the store as it was, *)
(* and the run goes on with the next block and, after the last block, with *)
(* the page's batch, also on a page whose only classifiable blocks are     *)
(* out-of-range TMUA records.                                              *)

\* a TMUA block that parses and has a score outside [1.0, 9.0]
OutOfRangeTMUA(ws) ==
    /\ IsTMUABlock(ws)
    /\ IsInt(ws[4])
    /\ IsInt(ws[5])
    /\ \A q \in (Len(ws) - 2) .. Len(ws) : IsFloat(ws[q])
    /\ \E q \in (Len(ws) - 2) .. Len(ws) :
          FloatOf(ws[q]) < 10 \/ FloatOf(ws[q]) > 90

\* the page whose blocks have all been classified held a discarded record
PageDiscarded ==
    \E m \in 1 .. Len(block_words) : OutOfRangeTMUA(block_words[m].words)

C13_DiscardSilent ==
    [][ /\ (pc = "classify" /\ OutOfRangeTMUA(Classified)) =>
              /\ exc' = NoException
              /\ pc' \in {"classify", "dispatch"}
              /\ k' = k + 1
              /\ data' = data
              /\ db' = db
        /\ (pc = "dispatch" /\ PageDiscarded) =>
              /\ exc' = NoException
              /\ pc' # "raised"
      ]_vars

----------------------------------------------------------------------------
(* C14: when no block of a page classifies as A-Level, GCSE or TMUA the    *)
(* run ends at that page with an error: the step that takes the page's     *)
(* batch raises and leaves every table as it was, and no step follows an   *)
(* error, so no later page is read and the rows of earlier pages stay.     *)

\* no block of the page has a kind
NoKindOnPage ==
    \A m \in 1 .. Len(block_words) : KindByLookup(block_words[m].words) = "none"

C14_EmptyPageAborts ==
    [][ /\ pc # "raised"
        /\ (pc = "dispatch" /\ NoKindOnPage) =>
              /\ pc' = "raised"
              /\ exc' # NoException
              /\ db' = db
              /\ page' = page
      ]_vars

\* a later page without a block of any kind has ended the run, and the
\* rows of an earlier page are in the store
C14_Witness ==
    /\ pc = "raised"
    /\ exc = "IndexError"
    /\ k > Len(block_words)
    /\ NoKindOnPage
    /\ data = <<>>
    /\ page > FIRST_PAGE
    /\ \E t \in DOMAIN db : db[t] # {}

----------------------------------------------------------------------------
(* C15: the grouping into blocks is per page and keeps the order: the word *)
(* list of a block holds the texts of the tokens of the current page with  *)
(* that block id, in stream order, each tag standing directly behind the   *)
(* 'Y' token that caused it (or behind another tag of that token); the     *)
(* lists are in the order in which their block ids were first seen, and    *)
(* the blocks are classified in that order.                                *)

\* the number of tokens of the page whose text is in block_words
Scanned == IF pc = "raised" /\ i <= Len(words) THEN i ELSE i - 1

\* the texts of the scanned tokens of block b, in stream order
TextsOf(b) ==
    LET toks == SelectSeq(SubSeq(words, 1, Scanned), LAMBDA t : t.block = b)
    IN  [m \in 1 .. Len(toks) |-> toks[m].word]

\* the position of the first scanned token of block b
FirstSeen(b) ==
    CHOOSE q \in 1 .. Scanned :
        /\ words[q].block = b
        /\ \A p \in 1 .. (q - 1) : words[p].block # b

\* the records of the first m blocks, in the order of the blocks
RECURSIVE RecordsOf(_)
RecordsOf(m) ==
    IF m = 0 THEN <<>>
    ELSE RecordsOf(m - 1) \o ClassifyRecord(block_words[m].words).recs

----------------------------------------------------------------------------
(* C16: every committed row lies in the table of its own kind, also when   *)
(* the blocks of a page classify into more than one kind and the insert    *)
(* routine is the one of the first record's kind.                          *)

C16_RowsInOwnTable ==
    \A t \in DOMAIN db : \A row \in db[t] : TableOf(row) = t

\* the batch holds records of more than one kind
MixedKinds ==
    \E d \in 2 .. Len(data) : data[d].kind # data[1].kind

\* on a later page the routine of the first record's kind has inserted
\* that record and then met a record of another kind: the run has ended,
\* the first record is in no table, the rows of the earlier page are
C16_Witness ==
    /\ pc = "raised"
    /\ exc = "AttributeError"
    /\ page > FIRST_PAGE
    /\ MixedKinds
    /\ n >= 2
    /\ data[n].kind # data[1].kind
    /\ data[1] \notin db[TableOf(data[1])]
    /\ db[TableOf(data[1])] # {}

----------------------------------------------------------------------------
(* C19: the header scan never reads past the end of the page: the scan of  *)
(* every token, a last token "Original", "Other" or "in" included, raises  *)
(* nothing, and a slot is written only when its two words are adjacent     *)
(* tokens of the page.                                                     *)

C19_ScanStaysOnPage ==
    [][ pc = "scan" =>
          /\ pc' # "raised"
          /\ exc' = NoException
          /\ \A j \in 1 .. 3 :
                yes_x_range'[j] # yes_x_range[j] => PhraseAt(words, i, j)
      ]_vars

----------------------------------------------------------------------------
(* C18: every record matches Outcome.any and at least one of the other     *)
(* four outcomes; it matches Outcome.nothing exactly when its three        *)
(* outcome booleans are all false, so never together with an offer or the  *)
(* pool, while those three may match together.  The records a selection    *)
(* keeps are the records of the selected years that match in this sense.   *)

NoOutcome(record) ==
    ~record.original_college /\ ~record.other_college /\ ~record.winter_pool

\* the records of the tab in the selected years
InYears == SelectSeq(self_data, LAMBDA r : r.year \in Years(tab, year_setting))

C18_OutcomesCover ==
    /\ \A m \in 1 .. Len(self_data) :
          LET record == self_data[m]
          IN  /\ matches_outcome(record, "any")
              /\ \E o \in Outcomes \ {"any"} : matches_outcome(record, o)
              /\ matches_outcome(record, "nothing") <=> NoOutcome(record)
              /\ matches_outcome(record, "nothing") =>
                    \A o \in Outcomes \ {"any", "nothing"} :
                       ~matches_outcome(record, o)
    /\ pc = "mainloop" =>
          /\ outcome_setting = "any" => filtered_records = InYears
          /\ outcome_setting = "nothing" =>
                filtered_records = SelectSeq(InYears, NoOutcome)

\* the pool is selected and a record with all three outcomes is kept; the
\* tab also holds a record that matches 'nothing' alone
C18_Witness ==
    /\ pc = "mainloop"
    /\ outcome_setting = "winter_pool"
    /\ \E m \in 1 .. Len(filtered_records) :
          /\ filtered_records[m].original_college
          /\ filtered_records[m].other_college
          /\ filtered_records[m].winter_pool
    /\ \E m \in 1 .. Len(self_data) : NoOutcome(self_data[m])

----------------------------------------------------------------------------
(* C20: in each tab, after any sequence of selections, one that keeps no   *)
(* record or one record included, the summary table is the frequency table *)
(* of the current filtered_records: one row for each value with its count, *)
(* the counts summing to len(filtered_records), the rows in non-increasing *)
(* count order, and the last row ("All", len(filtered_records), 100.0).    *)

\* the values the table of the tab counts, for the records rows
Tabulated(rows) ==
    CASE tab = "ALevel" -> GradeKeys(Field(rows, "grades"))
      [] tab = "GCSE" -> NineKeys(Field(rows, "nines"))
      [] tab = "TMUA" ->
            ScoreKeys(Field(rows, CASE notebook.select = 2 -> "paper2"
                                    [] notebook.select = 3 -> "overall"
                                    [] OTHER -> "paper1"))

Occurrences(values, v) == Cardinality({q \in 1 .. Len(values) : values[q] = v})

RECURSIVE SumCounts(_, _)
SumCounts(table, m) == IF m = 0 THEN 0 ELSE table[m][2] + SumCounts(table, m - 1)

IsFrequencyTable(table, values) ==
    LET rows == Len(table) - 1
    IN  /\ rows >= 0
        /\ table[rows + 1] = <<"All", Len(values), 1000>>
        /\ \A m \in 1 .. rows :
              /\ table[m][2] >= 1
              /\ table[m][2] = Occurrences(values, table[m][1])
              /\ \A o \in 1 .. (m - 1) : table[o][1] # table[m][1]
        /\ \A q \in 1 .. Len(values) :
              \E m \in 1 .. rows : table[m][1] = values[q]
        /\ SumCounts(table, rows) = Len(values)
        /\ \A m \in 1 .. (rows - 1) : table[m][2] >= table[m + 1][2]

C20_SummaryInStep ==
    pc = "mainloop" =>
        /\ filtered_records =
              SelectSeq(InYears, LAMBDA r : matches_outcome(r, outcome_setting))
        /\ SummaryTableRecords.exc = NoException
        /\ IsFrequencyTable(SummaryTableRecords.table,
                            Tabulated(filtered_records))

====
